---- MODULE Spec2Model ----
(***************************************************************************)
(* The "combine reports" upload orchestrator of the frontend               *)
(* (src/frontend/src/ui/CombineReports.tsx) and the transport client it    *)
(* drives (src/unnamed/part_000, the api module with convert and combine). *)
(*                                                                         *)
(* The React component is modelled as a state machine: its useState cells  *)
(* are the variables, each event handler, each promise continuation and    *)
(* the auto-combine useEffect is one action.  A step of the effect is      *)
(* separate from the state update that schedules it: React runs a passive  *)
(* effect after the render that committed the update, and updates that     *)
(* arrive before that render are batched into it.                          *)
(***************************************************************************)
EXTENDS Integers, Sequences, FiniteSets, TLC

VARIABLES
    \* CombineReports
    uploads,        \* useState<UploadState[]>: slot index -> [file, status, docId, title]
    busy,           \* useState(false)
    error,          \* useState<string | null>(null)
    combinedTitle,  \* useState("Combined Research Report")
    convertCalls,   \* the api.convert promises that have not settled yet
    combineCalls,   \* the api.combine requests that have not settled yet
    effectPending,  \* a dependency ([uploads, busy]) of the useEffect changed and it has not run yet
    attempts,       \* per slot, how many times handleFileUpload was called for it
    combineCount,   \* how many times api.combine has been called
    onCompleteCount,\* how many times the onComplete prop has been called
    lastDone,       \* the slot whose Convert call settled last, or -1
    lastOutcome,    \* how the api call that settled last ended: resolved or rejected
    quietSinceFail, \* a Combine call failed and nothing but effect runs happened since
    restore,        \* progress of "Combine failed, a slot left complete, all complete again"
    callsSinceRestore, \* Combine calls issued for the current restored all-complete state
    \* App (the single-item convert flow)
    appMode,        \* useState<Mode>("file")
    appFile,        \* useState<File | null>(null)
    appText,        \* useState("")
    appUrl,         \* useState("")
    appBusy,        \* useState(false)
    appError,       \* useState<string | null>(null)
    appPublicUrl,   \* useState<string | null>(null)
    appCalls,       \* the api.convert requests of App that have not settled yet
    appSubmits,     \* how many times onSubmit has been called
    appConvertCount,\* how many times onSubmit has called api.convert
    \* One call of the transport client, seen from its caller
    apiOp,          \* "convert" or "combine"
    apiResponse,    \* the response fetch resolves with
    apiResult,      \* what the call returned or threw, once it has
    apiBodyRead     \* whether the call read the response body

combineVars == <<uploads, busy, error, combinedTitle, convertCalls, combineCalls,
                 effectPending, attempts, combineCount, onCompleteCount,
                 lastDone, lastOutcome, quietSinceFail, restore, callsSinceRestore>>

appVars == <<appMode, appFile, appText, appUrl, appBusy, appError, appPublicUrl,
             appCalls, appSubmits, appConvertCount>>

apiVars == <<apiOp, apiResponse, apiResult, apiBodyRead>>

vars == <<combineVars, appVars, apiVars>>

observers == <<lastDone, lastOutcome, quietSinceFail, restore, callsSinceRestore>>

(***************************************************************************)
(* Bounds and constants                                                    *)
(***************************************************************************)
N == 3                  \* the three upload slots of useState's initial value
MaxBinds == 4           \* total handleFileUpload calls explored in one session
MaxCombines == 3        \* total api.combine calls explored in one session

Slots == 0 .. (N - 1)

None == "null"          \* JavaScript null / undefined

\* Every drop or selection hands the component a new File object: the k-th
\* file given to slot i.  The component never compares files or their names,
\* so the names are taken pairwise distinct.
NoFile == <<>>
NewFile(index, k) == <<index, k>>

\* Values typed into the combined-title input.
Titles == {"Combined Research Report", "My title"}

\* docId of a slot that has none (null), and the id the server returns for a
\* Convert call: ids are fresh per call, so the id names the call it answers.
NoDocId == <<>>
DocIdOf(call) == <<"doc", call.slot, call.attempt>>

\* File.name, stored as the slot's title on success.
FileName(f) ==
    IF f = NewFile(N - 1, 2) THEN ""      \* one file carries an empty name
    ELSE "file" \o ToString(f[1]) \o "-" \o ToString(f[2])

\* Error messages.  api.convert throws the body's error text when the body has
\* one and "Request failed (<status>)" otherwise; api.combine throws
\* "Combine failed: <status>".
ConvertFailures ==
    { [status |-> "413", bodyError |-> "File too large"],
      [status |-> "500", bodyError |-> None] }
CombineFailures == { [status |-> "500"] }

\* A plausible slip: the body of the response is never looked at.
ConvertMessageGeneric(res) ==
    "Request failed (" \o res.status \o ")"

ConvertMessage(res) ==
    IF res.bodyError # None THEN res.bodyError
    ELSE "Request failed (" \o res.status \o ")"

CombineMessage(res) ==
    "Combine failed: " \o res.status

(***************************************************************************)
(* The transport client: one call of api.convert or api.combine, from the  *)
(* response of fetch to what the call returns or throws.                   *)
(***************************************************************************)
ApiOps == {"convert", "combine"}
ApiStatuses == {"200", "400", "413", "415", "422", "500", "502", "503"}

\* A response body: whether res.json() can parse it and the value of its
\* error field (None when the field is absent).
ApiBodies ==
    { [json |-> FALSE, error |-> None],
      [json |-> TRUE, error |-> None],
      [json |-> TRUE, error |-> ""],
      [json |-> TRUE, error |-> "File too large"],
      [json |-> TRUE, error |-> "Unsupported file type"] }

ApiResponses == [status : ApiStatuses, body : ApiBodies]

\* res.ok: the status is in the range 200-299.
ResponseOk(resp) == resp.status = "200"

\* try { data = await res.json(); if (data?.error) ... } catch { }: the error
\* field when the body parses and the field is truthy.
ParsedError(body) ==
    IF body.json /\ body.error # None /\ body.error # "" THEN body.error ELSE None

ApiPending == [kind |-> "pending", message |-> None]
ApiReturned == [kind |-> "return", message |-> None]
ApiThrown(msg) == [kind |-> "throw", message |-> msg]

\* await res.json() on a body that does not parse.
JsonSyntaxError == "Unexpected token in JSON"

\* api.convert after fetch resolved.
ConvertOutcome(resp) ==
    IF ~ResponseOk(resp)
    THEN ApiThrown(ConvertMessage([status |-> resp.status,
                                   bodyError |-> ParsedError(resp.body)]))
    ELSE IF resp.body.json THEN ApiReturned ELSE ApiThrown(JsonSyntaxError)

\* api.combine after fetch resolved.
CombineOutcome(resp) ==
    IF ~ResponseOk(resp)
    THEN ApiThrown(CombineMessage([status |-> resp.status]))
    ELSE IF resp.body.json THEN ApiReturned ELSE ApiThrown(JsonSyntaxError)

\* api.convert calls res.json() on both paths, api.combine only on success.
ConvertReadsBody(resp) == TRUE
CombineReadsBody(resp) == ResponseOk(resp)

(***************************************************************************)
(* Pure helpers of the component                                           *)
(***************************************************************************)

\* { ...slot, ...patch }: the fields the patch names are overwritten.
Merge(slot, patch) ==
    [k \in DOMAIN slot |-> IF k \in DOMAIN patch THEN patch[k] ELSE slot[k]]

\* A plausible slip: the patch is applied to every slot instead of one.
UpdateUploadAll(ups, index, patch) ==
    [i \in Slots |-> Merge(ups[i], patch)]

\* updateUpload(index, patch): a copy of the array with slot index patched.
UpdateUpload(ups, index, patch) ==
    [i \in Slots |-> IF i = index THEN Merge(ups[i], patch) ELSE ups[i]]

\* A plausible slip: "some" where the code says "every".
SomeComplete(ups) ==
    \E i \in Slots : ups[i].status = "complete" /\ ups[i].docId # NoDocId

\* uploads.every((u) => u.status === "complete" && u.docId)
AllComplete(ups) ==
    \A i \in Slots : ups[i].status = "complete" /\ ups[i].docId # NoDocId

\* A plausible slip: the ids collected in reverse slot order.
DocIdsReversed(ups) == [k \in 1 .. N |-> ups[N - k].docId]

\* uploads.map((u) => u.docId!)
DocIds(ups) == [k \in 1 .. N |-> ups[k - 1].docId]

\* `Report ${i + 1}`
DefaultTitle(i) == "Report " \o ToString(i + 1)

\* A plausible slip: the titles collected in reverse slot order.
SlotTitlesReversed(ups) ==
    [k \in 1 .. N |->
        IF ups[N - k].title = None \/ ups[N - k].title = ""
        THEN DefaultTitle(N - k) ELSE ups[N - k].title]

\* uploads.map((u, i) => u.title || `Report ${i + 1}`)
SlotTitles(ups) ==
    [k \in 1 .. N |->
        IF ups[k - 1].title = None \/ ups[k - 1].title = ""
        THEN DefaultTitle(k - 1) ELSE ups[k - 1].title]

\* The arguments of one api.combine call.
CombineRequest(ups, title) ==
    [doc_ids |-> DocIds(ups), titles |-> SlotTitles(ups), combined_title |-> title]

RECURSIVE SumUpTo(_, _)
SumUpTo(f, i) == IF i < 0 THEN 0 ELSE f[i] + SumUpTo(f, i - 1)

\* How many times handleFileUpload has been called in this session.
TotalBinds == SumUpTo(attempts, N - 1)

(***************************************************************************)
(* Observers: they record what happened and never influence the component. *)
(***************************************************************************)
\* Progress of the scenario "a Combine call failed, then a slot left complete,
\* then every slot is complete again", after the slots changed to ups.
RestoreAfter(ups) ==
    CASE restore = "none" -> "none"
      [] restore = "failed" ->
            IF \E i \in Slots : uploads[i].status = "complete"
                                /\ ups[i].status # "complete"
            THEN "left" ELSE "failed"
      [] OTHER -> IF AllComplete(ups) THEN "restored" ELSE "left"

\* What the observers record when a handler changes the slots.
ObserveSlots(ups) ==
    /\ quietSinceFail' = FALSE
    /\ restore' = RestoreAfter(ups)
    /\ callsSinceRestore' = 0

(***************************************************************************)
(* Initial state: the useState initial values.                             *)
(***************************************************************************)
InitCombine ==
    /\ uploads = [i \in Slots |->
                    [file |-> NoFile, status |-> "waiting", docId |-> NoDocId, title |-> None]]
    /\ busy = FALSE
    /\ error = None
    /\ combinedTitle = "Combined Research Report"
    /\ convertCalls = {}
    /\ combineCalls = {}
    /\ effectPending = TRUE      \* an effect runs once after the first render
    /\ attempts = [i \in Slots |-> 0]
    /\ combineCount = 0
    /\ onCompleteCount = 0
    /\ lastDone = -1
    /\ lastOutcome = "none"
    /\ quietSinceFail = FALSE
    /\ restore = "none"
    /\ callsSinceRestore = 0

\* A plausible slip: handleFileUpload without its setError(null).
BindKeepsError(index) ==
    /\ TotalBinds < MaxBinds
    /\ LET file == NewFile(index, attempts[index] + 1)
           call == [slot |-> index, file |-> file, attempt |-> attempts[index] + 1]
           ups == UpdateUpload(uploads, index, [file |-> file, status |-> "uploading"])
       IN  /\ uploads' = ups
           /\ convertCalls' = convertCalls \cup {call}
           /\ attempts' = [attempts EXCEPT ![index] = @ + 1]
           /\ ObserveSlots(ups)
    /\ effectPending' = TRUE
    /\ UNCHANGED <<busy, error, combinedTitle, combineCalls, combineCount,
                   onCompleteCount, lastDone, lastOutcome>>

(***************************************************************************)
(* handleFileUpload(index, file), up to its await.  The DropZone of a slot *)
(* is rendered in every status, so the handler has no guard.               *)
(***************************************************************************)
Bind(index) ==
    /\ TotalBinds < MaxBinds
    /\ LET file == NewFile(index, attempts[index] + 1)
           call == [slot |-> index, file |-> file, attempt |-> attempts[index] + 1]
           ups == UpdateUpload(uploads, index, [file |-> file, status |-> "uploading"])
       IN  /\ error' = None
           /\ uploads' = ups
           /\ convertCalls' = convertCalls \cup {call}
           /\ attempts' = [attempts EXCEPT ![index] = @ + 1]
           /\ ObserveSlots(ups)
    /\ effectPending' = TRUE
    /\ UNCHANGED <<busy, combinedTitle, combineCalls, combineCount, onCompleteCount,
                   lastDone>>
    /\ UNCHANGED lastOutcome

\* A plausible slip: setError placed after the try/catch, so it also runs when
\* the Convert call succeeded.
ConvertSucceedsSetsError(call) ==
    /\ call \in convertCalls
    /\ LET ups == UpdateUpload(uploads, call.slot,
                     [status |-> "complete", docId |-> DocIdOf(call),
                      title |-> FileName(call.file)])
       IN  /\ uploads' = ups
           /\ ObserveSlots(ups)
    /\ error' = "Upload failed"
    /\ convertCalls' = convertCalls \ {call}
    /\ lastDone' = call.slot
    /\ lastOutcome' = "resolved"
    /\ effectPending' = TRUE
    /\ UNCHANGED <<busy, combinedTitle, combineCalls, attempts,
                   combineCount, onCompleteCount>>

\* handleFileUpload after the await, api.convert resolved.
ConvertSucceeds(call) ==
    /\ call \in convertCalls
    /\ LET ups == UpdateUpload(uploads, call.slot,
                     [status |-> "complete", docId |-> DocIdOf(call),
                      title |-> FileName(call.file)])
       IN  /\ uploads' = ups
           /\ ObserveSlots(ups)
    /\ convertCalls' = convertCalls \ {call}
    /\ lastDone' = call.slot
    /\ effectPending' = TRUE
    /\ UNCHANGED <<busy, error, combinedTitle, combineCalls, attempts,
                   combineCount, onCompleteCount>>
    /\ lastOutcome' = "resolved"

\* A plausible slip: no try/catch around the await, the rejection escapes
\* handleFileUpload and the slot is left as it was.
ConvertFailsUncaught(call, res) ==
    /\ call \in convertCalls
    /\ convertCalls' = convertCalls \ {call}
    /\ lastDone' = call.slot
    /\ lastOutcome' = "rejected"
    /\ UNCHANGED <<uploads, busy, error, combinedTitle, combineCalls, effectPending,
                   attempts, combineCount, onCompleteCount, quietSinceFail, restore,
                   callsSinceRestore>>

\* handleFileUpload after the await, api.convert rejected: the catch block.
ConvertFails(call, res) ==
    /\ call \in convertCalls
    /\ LET ups == UpdateUpload(uploads, call.slot, [status |-> "error"])
       IN  /\ uploads' = ups
           /\ ObserveSlots(ups)
    /\ error' = ConvertMessage(res)
    /\ convertCalls' = convertCalls \ {call}
    /\ lastDone' = call.slot
    /\ effectPending' = TRUE
    /\ UNCHANGED <<busy, combinedTitle, combineCalls, attempts,
                   combineCount, onCompleteCount>>
    /\ lastOutcome' = "rejected"

\* A plausible slip: the reset leaves the document id in place.
RetryKeepsDocId(index) ==
    /\ uploads[index].status = "error"
    /\ LET ups == UpdateUpload(uploads, index, [status |-> "waiting", file |-> NoFile])
       IN  /\ uploads' = ups
           /\ ObserveSlots(ups)
    /\ effectPending' = TRUE
    /\ UNCHANGED <<busy, error, combinedTitle, convertCalls, combineCalls,
                   attempts, combineCount, onCompleteCount, lastDone, lastOutcome>>

\* The Retry button, rendered only while the slot shows "error".
Retry(index) ==
    /\ uploads[index].status = "error"
    /\ LET ups == UpdateUpload(uploads, index,
                     [status |-> "waiting", file |-> NoFile, docId |-> NoDocId])
       IN  /\ uploads' = ups
           /\ ObserveSlots(ups)
    /\ effectPending' = TRUE
    /\ UNCHANGED <<busy, error, combinedTitle, convertCalls, combineCalls,
                   attempts, combineCount, onCompleteCount, lastDone>>
    /\ UNCHANGED lastOutcome

\* A plausible slip: the request reads the title when it is sent, so an edit
\* reaches a call that was already issued.
SetCombinedTitleRewritesCalls(title) ==
    /\ title # combinedTitle
    /\ combinedTitle' = title
    /\ combineCalls' = { [q EXCEPT !.combined_title = title] : q \in combineCalls }
    /\ quietSinceFail' = FALSE
    /\ UNCHANGED <<uploads, busy, error, convertCalls, effectPending,
                   attempts, combineCount, onCompleteCount, lastDone, lastOutcome,
                   restore, callsSinceRestore>>

\* onChange of the combined-title input.
SetCombinedTitle(title) ==
    /\ title # combinedTitle
    /\ combinedTitle' = title
    /\ quietSinceFail' = FALSE
    /\ UNCHANGED <<uploads, busy, error, convertCalls, combineCalls, effectPending,
                   attempts, combineCount, onCompleteCount, lastDone, restore,
                   callsSinceRestore>>
    /\ UNCHANGED lastOutcome

(***************************************************************************)
(* The auto-combine useEffect, deps [uploads, busy], and combineIfReady up *)
(* to its await.                                                           *)
(***************************************************************************)
\* The effect runs and returns: busy, or not every slot complete.
EffectIdle ==
    /\ effectPending
    /\ busy \/ ~AllComplete(uploads)
    /\ effectPending' = FALSE
    /\ UNCHANGED <<uploads, busy, error, combinedTitle, convertCalls, combineCalls,
                   attempts, combineCount, onCompleteCount, observers>>

\* A plausible slip: the effect sees every slot complete and still returns
\* without calling combineIfReady.
EffectDropsCombine ==
    /\ effectPending
    /\ ~busy
    /\ AllComplete(uploads)
    /\ effectPending' = FALSE
    /\ UNCHANGED <<uploads, busy, error, combinedTitle, convertCalls, combineCalls,
                   attempts, combineCount, onCompleteCount, observers>>

\* The effect calls combineIfReady, which sets busy, clears the error and
\* issues api.combine.  setBusy(true) changes a dependency of the effect.
EffectCombines ==
    /\ effectPending
    /\ ~busy
    /\ AllComplete(uploads)
    /\ combineCount < MaxCombines
    /\ busy' = TRUE
    /\ error' = None
    /\ combineCalls' = combineCalls \cup {CombineRequest(uploads, combinedTitle)}
    /\ combineCount' = combineCount + 1
    /\ effectPending' = TRUE
    /\ callsSinceRestore' = IF restore = "restored" THEN callsSinceRestore + 1 ELSE 0
    /\ UNCHANGED <<uploads, combinedTitle, convertCalls, attempts, onCompleteCount,
                   lastDone, quietSinceFail, restore>>
    /\ UNCHANGED lastOutcome

\* A plausible slip: no finally block, busy stays true after a success.
CombineSucceedsKeepsBusy(req) ==
    /\ req \in combineCalls
    /\ combineCalls' = combineCalls \ {req}
    /\ onCompleteCount' = onCompleteCount + 1
    /\ effectPending' = TRUE
    /\ quietSinceFail' = FALSE
    /\ UNCHANGED <<uploads, busy, error, combinedTitle, convertCalls, attempts,
                   combineCount, lastDone, restore, callsSinceRestore>>
    /\ lastOutcome' = "resolved"

\* combineIfReady after the await, api.combine resolved: onComplete(result),
\* then the finally block.
CombineSucceeds(req) ==
    /\ req \in combineCalls
    /\ combineCalls' = combineCalls \ {req}
    /\ onCompleteCount' = onCompleteCount + 1
    /\ busy' = FALSE
    /\ effectPending' = TRUE
    /\ quietSinceFail' = FALSE
    /\ UNCHANGED <<uploads, error, combinedTitle, convertCalls, attempts, combineCount,
                   lastDone, restore, callsSinceRestore>>
    /\ lastOutcome' = "resolved"

\* A plausible slip: the failure handler also resets the slots.
CombineFailsResetsSlots(req, res) ==
    /\ req \in combineCalls
    /\ combineCalls' = combineCalls \ {req}
    /\ error' = CombineMessage(res)
    /\ busy' = FALSE
    /\ uploads' = [i \in Slots |->
                     Merge(uploads[i], [status |-> "waiting", docId |-> NoDocId])]
    /\ effectPending' = TRUE
    /\ quietSinceFail' = TRUE
    /\ restore' = IF restore = "none" THEN "failed" ELSE restore
    /\ UNCHANGED <<combinedTitle, convertCalls, attempts, combineCount,
                   onCompleteCount, lastDone, callsSinceRestore>>
    /\ lastOutcome' = "rejected"

\* combineIfReady after the await, api.combine rejected: the catch block, then
\* the finally block.
CombineFails(req, res) ==
    /\ req \in combineCalls
    /\ combineCalls' = combineCalls \ {req}
    /\ error' = CombineMessage(res)
    /\ busy' = FALSE
    /\ effectPending' = TRUE
    /\ quietSinceFail' = TRUE
    /\ restore' = IF restore = "none" THEN "failed" ELSE restore
    /\ UNCHANGED <<uploads, combinedTitle, convertCalls, attempts, combineCount,
                   onCompleteCount, lastDone, callsSinceRestore>>
    /\ lastOutcome' = "rejected"

(***************************************************************************)
(* App: the single-item convert flow (App.tsx).                            *)
(***************************************************************************)
MaxSubmits == 2         \* onSubmit calls explored in one session
MaxTextLength == 2000000
MaxFileBytes == 15 * 1024 * 1024

AppModes == {"file", "text", "url"}

\* A selected file is represented by its size in bytes.
AppFile(size) == <<size>>
AppFileSize(f) == f[1]
AppFiles == { AppFile(1024), AppFile(MaxFileBytes), AppFile(MaxFileBytes + 1) }

\* A text is represented by its length and by whether text.trim() is empty.
EmptyText == [len |-> 0, blank |-> TRUE]
AppTexts ==
    { EmptyText, [len |-> 3, blank |-> TRUE], [len |-> 5, blank |-> FALSE],
      [len |-> MaxTextLength, blank |-> FALSE],
      [len |-> MaxTextLength + 1, blank |-> FALSE] }

\* A url is represented by whether url.trim() is empty and whether new URL(url)
\* accepts it.
EmptyUrl == [blank |-> TRUE, valid |-> FALSE]
AppUrls == { EmptyUrl, [blank |-> FALSE, valid |-> FALSE], [blank |-> FALSE, valid |-> TRUE] }

\* The validation of onSubmit: the message of the Error it throws, or None.
ValidationError(mode, file, text, url) ==
    CASE mode = "file" ->
            IF file = NoFile THEN "Please select a .docx/.md/.txt file"
            ELSE IF AppFileSize(file) > MaxFileBytes THEN "File too large (max 15MB)"
            ELSE None
      [] mode = "text" ->
            IF text.blank THEN "Please paste or type some text"
            ELSE IF text.len > MaxTextLength THEN "Text too long (max ~2MB)"
            ELSE None
      [] mode = "url" ->
            IF url.blank THEN "Please enter a URL"
            ELSE IF ~url.valid THEN "Invalid URL"
            ELSE None
      [] OTHER -> None

\* The responses explored for a Convert call of App that fails.
AppFailureResponses ==
    { r \in ApiResponses :
        /\ r.status \in {"413", "500"}
        /\ r.body \in { [json |-> FALSE, error |-> None],
                        [json |-> TRUE, error |-> "File too large"] } }

InitApp ==
    /\ appMode = "file"
    /\ appFile = NoFile
    /\ appText = EmptyText
    /\ appUrl = EmptyUrl
    /\ appBusy = FALSE
    /\ appError = None
    /\ appPublicUrl = None
    /\ appCalls = {}
    /\ appSubmits = 0
    /\ appConvertCount = 0

\* No call of the transport client is being looked at.
InitApiIdle ==
    /\ apiOp = "none"
    /\ apiResponse = [status |-> "200", body |-> [json |-> TRUE, error |-> None]]
    /\ apiResult = ApiPending
    /\ apiBodyRead = FALSE

\* One call of the transport client with any response.
InitApi ==
    /\ InitCombine
    /\ InitApp
    /\ apiOp \in ApiOps
    /\ apiResponse \in ApiResponses
    /\ apiResult = ApiPending
    /\ apiBodyRead = FALSE

Init == InitCombine /\ InitApp /\ InitApiIdle

\* InputTabs onChange={setMode}
AppSetMode(m) ==
    /\ m # appMode
    /\ appMode' = m
    /\ UNCHANGED <<appFile, appText, appUrl, appBusy, appError, appPublicUrl,
                   appCalls, appSubmits, appConvertCount>>

\* DropZone onFile={setFile}, rendered in file mode.
AppPickFile(f) ==
    /\ appMode = "file"
    /\ f # appFile
    /\ appFile' = f
    /\ UNCHANGED <<appMode, appText, appUrl, appBusy, appError, appPublicUrl,
                   appCalls, appSubmits, appConvertCount>>

\* textarea onChange, rendered in text mode.
AppTypeText(t) ==
    /\ appMode = "text"
    /\ t # appText
    /\ appText' = t
    /\ UNCHANGED <<appMode, appFile, appUrl, appBusy, appError, appPublicUrl,
                   appCalls, appSubmits, appConvertCount>>

\* url input onChange, rendered in url mode.
AppTypeUrl(u) ==
    /\ appMode = "url"
    /\ u # appUrl
    /\ appUrl' = u
    /\ UNCHANGED <<appMode, appFile, appText, appBusy, appError, appPublicUrl,
                   appCalls, appSubmits, appConvertCount>>

\* onSubmit when the validation throws: reset(), catch, finally.  The button
\* is disabled while busy.
OnSubmitInvalid ==
    /\ ~appBusy
    /\ appSubmits < MaxSubmits
    /\ ValidationError(appMode, appFile, appText, appUrl) # None
    /\ appError' = ValidationError(appMode, appFile, appText, appUrl)
    /\ appPublicUrl' = None
    /\ appBusy' = FALSE
    /\ appSubmits' = appSubmits + 1
    /\ UNCHANGED <<appMode, appFile, appText, appUrl, appCalls, appConvertCount>>

\* A plausible slip: the single-item flow also asks for a combined document.
OnSubmitSendsAndCombines ==
    /\ ~appBusy
    /\ appSubmits < MaxSubmits
    /\ ValidationError(appMode, appFile, appText, appUrl) = None
    /\ appError' = None
    /\ appPublicUrl' = None
    /\ appBusy' = TRUE
    /\ appCalls' = appCalls \cup {[file |-> appFile, text |-> appText, url |-> appUrl]}
    /\ appConvertCount' = appConvertCount + 1
    /\ appSubmits' = appSubmits + 1
    /\ combineCount' = combineCount + 1
    /\ UNCHANGED <<appMode, appFile, appText, appUrl>>
    /\ UNCHANGED <<uploads, busy, error, combinedTitle, convertCalls, combineCalls,
                   effectPending, attempts, onCompleteCount, observers>>
    /\ UNCHANGED apiVars

\* onSubmit when the validation passes, up to the await: reset(),
\* setBusy(true), api.convert({ file, text, url }).
OnSubmitSends ==
    /\ ~appBusy
    /\ appSubmits < MaxSubmits
    /\ ValidationError(appMode, appFile, appText, appUrl) = None
    /\ appError' = None
    /\ appPublicUrl' = None
    /\ appBusy' = TRUE
    /\ appCalls' = appCalls \cup {[file |-> appFile, text |-> appText, url |-> appUrl]}
    /\ appConvertCount' = appConvertCount + 1
    /\ appSubmits' = appSubmits + 1
    /\ UNCHANGED <<appMode, appFile, appText, appUrl>>
    /\ UNCHANGED combineVars
    /\ UNCHANGED apiVars

\* onSubmit after the await, api.convert resolved: setPublicUrl, finally.
AppConvertResolves(call) ==
    /\ call \in appCalls
    /\ appCalls' = appCalls \ {call}
    /\ appPublicUrl' = "public_url"
    /\ appBusy' = FALSE
    /\ UNCHANGED <<appMode, appFile, appText, appUrl, appError, appSubmits,
                   appConvertCount>>

\* onSubmit after the await, api.convert rejected: catch, finally.
AppConvertRejects(call, resp) ==
    /\ call \in appCalls
    /\ appCalls' = appCalls \ {call}
    /\ appError' = ConvertOutcome(resp).message
    /\ appBusy' = FALSE
    /\ UNCHANGED <<appMode, appFile, appText, appUrl, appPublicUrl, appSubmits,
                   appConvertCount>>

NextApp ==
    \/ (\E m \in AppModes : AppSetMode(m)) /\ UNCHANGED <<combineVars, apiVars>>
    \/ (\E f \in AppFiles : AppPickFile(f)) /\ UNCHANGED <<combineVars, apiVars>>
    \/ (\E t \in AppTexts : AppTypeText(t)) /\ UNCHANGED <<combineVars, apiVars>>
    \/ (\E u \in AppUrls : AppTypeUrl(u)) /\ UNCHANGED <<combineVars, apiVars>>
    \/ OnSubmitInvalid /\ UNCHANGED <<combineVars, apiVars>>
    \/ OnSubmitSends
    \/ (\E c \in appCalls : AppConvertResolves(c)) /\ UNCHANGED <<combineVars, apiVars>>
    \/ (\E c \in appCalls, r \in AppFailureResponses : AppConvertRejects(c, r))
          /\ UNCHANGED <<combineVars, apiVars>>

SpecApp == Init /\ [][NextApp]_vars

(***************************************************************************)
(* One call of the transport client settles.                               *)
(***************************************************************************)
ApiConvertSettles ==
    /\ apiOp = "convert"
    /\ apiResult = ApiPending
    /\ apiResult' = ConvertOutcome(apiResponse)
    /\ apiBodyRead' = ConvertReadsBody(apiResponse)
    /\ UNCHANGED <<apiOp, apiResponse, combineVars, appVars>>

ApiCombineSettles ==
    /\ apiOp = "combine"
    /\ apiResult = ApiPending
    /\ apiResult' = CombineOutcome(apiResponse)
    /\ apiBodyRead' = CombineReadsBody(apiResponse)
    /\ UNCHANGED <<apiOp, apiResponse, combineVars, appVars>>

NextApi == ApiConvertSettles \/ ApiCombineSettles

SpecApi == InitApi /\ [][NextApi]_vars

(***************************************************************************)
(* CombineReports: the next-state relation.                                *)
(***************************************************************************)
Next ==
    \/ (\E i \in Slots : Bind(i)) /\ UNCHANGED <<appVars, apiVars>>
    \/ (\E c \in convertCalls : ConvertSucceeds(c)) /\ UNCHANGED <<appVars, apiVars>>
    \/ (\E c \in convertCalls, r \in ConvertFailures : ConvertFails(c, r))
          /\ UNCHANGED <<appVars, apiVars>>
    \/ (\E i \in Slots : Retry(i)) /\ UNCHANGED <<appVars, apiVars>>
    \/ (\E t \in Titles : SetCombinedTitle(t)) /\ UNCHANGED <<appVars, apiVars>>
    \/ EffectIdle /\ UNCHANGED <<appVars, apiVars>>
    \/ EffectCombines /\ UNCHANGED <<appVars, apiVars>>
    \/ (\E q \in combineCalls : CombineSucceeds(q)) /\ UNCHANGED <<appVars, apiVars>>
    \/ (\E q \in combineCalls, r \in CombineFailures : CombineFails(q, r))
          /\ UNCHANGED <<appVars, apiVars>>

Spec == Init /\ [][Next]_vars

(***************************************************************************)
(* CombineReports when no api call fails: the steps that remain, with the  *)
(* promise continuations and the effect run weakly fair (a settled promise *)
(* runs its continuation, React runs a scheduled effect).                  *)
(***************************************************************************)
ConvertSettles ==
    (\E c \in convertCalls : ConvertSucceeds(c)) /\ UNCHANGED <<appVars, apiVars>>

CombineSettles ==
    (\E q \in combineCalls : CombineSucceeds(q)) /\ UNCHANGED <<appVars, apiVars>>

EffectRuns ==
    (EffectIdle \/ EffectCombines) /\ UNCHANGED <<appVars, apiVars>>

NextLive ==
    \/ (\E i \in Slots : Bind(i)) /\ UNCHANGED <<appVars, apiVars>>
    \/ (\E t \in Titles : SetCombinedTitle(t)) /\ UNCHANGED <<appVars, apiVars>>
    \/ ConvertSettles
    \/ EffectRuns
    \/ CombineSettles

SpecLive ==
    /\ Init
    /\ [][NextLive]_vars
    /\ WF_vars(ConvertSettles)
    /\ WF_vars(EffectRuns)
    /\ WF_vars(CombineSettles)

(***************************************************************************)
(* Properties                                                              *)
(***************************************************************************)
ConvertMessages == { ConvertMessage(r) : r \in ConvertFailures }
CombineMessages == { CombineMessage(r) : r \in CombineFailures }

\* Every slot shows "complete" and carries a document id.
EverySlotComplete ==
    \A i \in Slots : uploads[i].status = "complete" /\ uploads[i].docId # NoDocId

\* This step issues an api.combine call.
CombineIssued == combineCount' # combineCount

\* C1: the Combine operation is invoked at most once per session, whatever the
\* interleaving of binds, Convert outcomes and Combine responses.
C1_CombineAtMostOnce == combineCount <= 1

\* C2: once a Combine call has succeeded, no further Combine call is issued,
\* neither while the slots stay complete nor after a slot was reset or
\* re-bound and became complete again.
C2_NoCombineAfterSuccess ==
    [][onCompleteCount > 0 => ~CombineIssued]_vars

\* C3: Combine is never retried automatically: after a Combine call failed, no
\* new Combine call is issued unless a user action (or any other change of the
\* session) happened in between.
C3_NoAutomaticRetry ==
    [][quietSinceFail => ~CombineIssued]_vars

\* C4: Combine is invoked only in a state where every slot is complete with a
\* document id and no Combine call is outstanding (busy false); never while a
\* slot is waiting, uploading or in error.
C4_CombineOnlyWhenAllCompleteAndIdle ==
    [][CombineIssued =>
          /\ EverySlotComplete
          /\ \A i \in Slots : uploads[i].status \notin {"waiting", "uploading", "error"}
          /\ ~busy
          /\ combineCalls = {}]_vars

\* C4 witness: a Combine call has been issued and is outstanding.
C4_Witness == combineCount = 1 /\ combineCalls # {} /\ busy

\* C5: for every order of binds and of Convert completions, the document id
\* list passed to Combine is in slot index order: element i is the document
\* id of slot i, an id returned to a Convert call of slot i.
C5_DocIdsInSlotOrder ==
    [][CombineIssued =>
          \E req \in combineCalls' :
              /\ req \notin combineCalls
              /\ DOMAIN req.doc_ids = 1 .. N
              /\ \A i \in Slots :
                    /\ req.doc_ids[i + 1] = uploads[i].docId
                    /\ req.doc_ids[i + 1][2] = i]_vars

\* C5 witness: a Combine call is outstanding whose ids are those of slots
\* 0, 1, 2 in that order although slot 0 was bound twice and the Convert call
\* of slot 0 settled last.
C5_Witness ==
    /\ \E req \in combineCalls :
          \A i \in Slots : req.doc_ids[i + 1] = uploads[i].docId
    /\ EverySlotComplete
    /\ lastDone = 0
    /\ attempts[0] = 2

\* C6: after a Combine call failed, a slot left complete and all slots became
\* complete again, exactly one new Combine call is issued for that restored
\* state (here: never more than one).
C6_OneCombinePerRestoredState ==
    restore = "restored" => callsSinceRestore <= 1

\* C7: a failed Combine call changes no slot (status, document id, label,
\* file); its only effects are the session error, set to the Combine message,
\* and busy, set to false.
C7_CombineFailureChangesNoSlot ==
    [][(combineCalls # {} /\ combineCalls' = {} /\ onCompleteCount' = onCompleteCount) =>
          /\ uploads' = uploads
          /\ error' \in CombineMessages
          /\ busy' = FALSE
          /\ combinedTitle' = combinedTitle
          /\ convertCalls' = convertCalls
          /\ combineCount' = combineCount]_vars

\* C7 witness: a Combine call has failed while every slot was complete.
C7_Witness ==
    /\ error \in CombineMessages
    /\ ~busy
    /\ combineCalls = {}
    /\ EverySlotComplete
    /\ quietSinceFail

\* C8: a Convert failure for slot i changes only slot i, whose status becomes
\* "error": every other slot keeps its status, document id and label, the
\* other Convert calls stay outstanding and no Combine call is touched.
C8_ConvertFailureIsLocal ==
    [][\A c \in convertCalls :
          (c \notin convertCalls' /\ uploads'[c.slot].status = "error") =>
              /\ \A j \in Slots \ {c.slot} : uploads'[j] = uploads[j]
              /\ convertCalls' = convertCalls \ {c}
              /\ combineCalls' = combineCalls
              /\ busy' = busy]_vars

\* C8 witness: slot i is in error after its Convert call failed, and a
\* sibling that was uploading at that time completed afterwards.
C8_Witness ==
    \E i, j \in Slots :
        /\ i # j
        /\ uploads[i].status = "error"
        /\ error \in ConvertMessages
        /\ lastDone = j
        /\ uploads[j].status = "complete"
        /\ uploads[j].docId # NoDocId

\* C9: in every reachable state a slot carries a document id if and only if
\* its status is "complete".
C9_DocIdIffComplete ==
    \A i \in Slots : (uploads[i].docId # NoDocId) <=> (uploads[i].status = "complete")

\* C10: a slot in error (or reset from error to waiting) never becomes
\* complete without being uploading again first: "complete" is entered from
\* "uploading" only.
C10_FailedNeverDirectlyComplete ==
    [][\A i \in Slots :
          uploads[i].status \in {"error", "waiting"} => uploads'[i].status # "complete"]_vars

\* Steps in which an api call settles.
ConvertRejected(c) ==
    c \in convertCalls /\ c \notin convertCalls' /\ lastOutcome' = "rejected"
CombineRejected ==
    combineCalls # {} /\ combineCalls' = {} /\ lastOutcome' = "rejected"

\* C11: busy is true if and only if a Combine call of this session is
\* outstanding, so at most one Combine call is outstanding at any time; in
\* the step that issues the request busy becomes true.
C11_BusyIffCombineOutstanding ==
    /\ busy <=> (combineCalls # {})
    /\ Cardinality(combineCalls) <= 1

\* C11 witness: a second Combine call is outstanding after the first one
\* settled; busy went true, false and true again.
C11_Witness == busy /\ Cardinality(combineCalls) = 1 /\ combineCount = 2

\* C12: onComplete is invoked at most once per session (and only with the
\* result of a Combine call that succeeded).
C12_OnCompleteAtMostOnce == onCompleteCount <= 1

\* C16: a slot has no input (file is null) if and only if its status is
\* "waiting".
C16_NoFileIffWaiting ==
    \A i \in Slots : (uploads[i].file = NoFile) <=> (uploads[i].status = "waiting")

\* C20: every change of a slot's status is waiting -> uploading,
\* uploading -> complete, uploading -> error, error -> waiting or
\* complete -> waiting; no other status change is reachable.
C20_OnlyListedTransitions ==
    [][\A i \in Slots :
          uploads'[i].status # uploads[i].status =>
              <<uploads[i].status, uploads'[i].status>> \in
                  { <<"waiting", "uploading">>, <<"uploading", "complete">>,
                    <<"uploading", "error">>, <<"error", "waiting">>,
                    <<"complete", "waiting">> }]_vars

C14_ErrorClearedOnNewAttempt ==
    [][/\ (attempts' # attempts \/ combineCount' # combineCount) => error' = None
       /\ (error = None /\ error' # None) =>
             /\ lastOutcome' = "rejected"
             /\ \/ combineCalls # {} /\ combineCalls' = {}
                \/ \E c \in convertCalls : c \notin convertCalls']_vars

\* C14 witness: a Convert call failed, which set the error, and a later bind
\* cleared it: a slot is in error, another is uploading, no call settled
\* since the failure and the error is null.
C14_Witness ==
    /\ error = None
    /\ lastOutcome = "rejected"
    /\ lastDone >= 0
    /\ uploads[lastDone].status = "error"
    /\ \E j \in Slots : uploads[j].status = "uploading"

\* C15: no failure escapes the handlers: every rejected Convert call leaves
\* its slot in error, every rejected Combine call leaves the session error
\* set and busy false.
C15_RejectionsAreHandled ==
    [][/\ \A c \in convertCalls : ConvertRejected(c) => uploads'[c.slot].status = "error"
       /\ CombineRejected => (error' # None /\ busy' = FALSE)]_vars

\* C15 witness: a Convert call was rejected while a Combine call was
\* outstanding and the Combine call was rejected after it: the slot is in
\* error, the session error is the Combine message and busy is false.
C15_Witness ==
    /\ lastOutcome = "rejected"
    /\ error \in CombineMessages
    /\ ~busy
    /\ \E i \in Slots : uploads[i].status = "error"

(***************************************************************************)
(* C17: the single-item flow never calls Combine.                          *)
(***************************************************************************)
\* C17: no step of App calls Combine, and one onSubmit issues at most one
\* Convert call: the number of Convert calls grows by at most one in a step,
\* only in a step that is a submit, and never passes the number of submits.
C17_SubmitNeverCombines ==
    [][ /\ combineCount' = combineCount
        /\ combineCalls' = combineCalls
        /\ appConvertCount' - appConvertCount \in {0, 1}
        /\ appConvertCount' # appConvertCount => appSubmits' = appSubmits + 1
        /\ appConvertCount' <= appSubmits' ]_vars

\* Two submits went out, the last one failed on the server, and there never
\* was a Combine call.
C17_Witness ==
    /\ appSubmits = 2
    /\ appConvertCount = 2
    /\ appCalls = {}
    /\ appError = "Request failed (500)"
    /\ combineCount = 0

(***************************************************************************)
(* C18: invalid input never reaches the network.                           *)
(***************************************************************************)
\* The size of the file dropped on a slot.  handleFileUpload never reads it;
\* files within and over the ceiling both occur among the drops explored.
FileSize(f) == IF (f[1] + f[2]) % 2 = 0 THEN MaxFileBytes + 1 ELSE 1024

\* C18: no Convert call issued for a slot carries a file over the 15 MB ceiling.
C18_NoOversizeSlotUploadSent ==
    \A c \in convertCalls : FileSize(c.file) <= MaxFileBytes

(***************************************************************************)
(* C19: the error messages of the transport client.                        *)
(***************************************************************************)
\* C19: on a non-success response the call throws; convert throws the error
\* field of the body when the body parses and the field is non-empty, otherwise
\* "Request failed (<status>)"; combine throws "Combine failed: <status>" and
\* has not read the body.
C19_ErrorMessages ==
    (apiResult # ApiPending /\ apiResponse.status # "200") =>
        /\ apiResult.kind = "throw"
        /\ apiOp = "convert" =>
              apiResult.message =
                  IF /\ apiResponse.body.json
                     /\ apiResponse.body.error \notin {None, ""}
                  THEN apiResponse.body.error
                  ELSE "Request failed (" \o apiResponse.status \o ")"
        /\ apiOp = "combine" =>
              /\ apiResult.message = "Combine failed: " \o apiResponse.status
              /\ ~apiBodyRead

\* convert settled on a 413 whose body carries a structured error.
C19_Witness ==
    /\ apiOp = "convert"
    /\ apiResponse.status = "413"
    /\ apiResult = ApiThrown("File too large")
    /\ apiBodyRead

(***************************************************************************)
(* C21: one outstanding Convert call per slot.                             *)
(***************************************************************************)
\* C21: no two outstanding Convert calls belong to the same slot.
C21_OneConvertPerSlot ==
    \A c1 \in convertCalls, c2 \in convertCalls : c1.slot = c2.slot => c1 = c2

(***************************************************************************)
(* C22: the join check and the dispatch are one step.                      *)
(***************************************************************************)
\* C22: once every slot is complete and the first Combine call is due (not
\* busy, none issued yet), no slot and no title changes before it is issued.
C22_NothingBetweenJoinAndDispatch ==
    [][ (EverySlotComplete /\ ~busy /\ combineCount = 0)
            => (uploads' = uploads /\ combinedTitle' = combinedTitle) ]_vars

(***************************************************************************)
(* C23: a failed slot stays failed until the user acts on it.              *)
(***************************************************************************)
\* C23: a slot in error changes only when the user binds a file to it or
\* resets it; otherwise it stays in error and no Convert call is issued for it.
C23_FailedUntilUserActs ==
    [][ \A i \in Slots :
          uploads[i].status = "error" =>
            \/ attempts'[i] # attempts[i]
            \/ /\ uploads'[i].status = "waiting"
               /\ uploads'[i].file = NoFile
               /\ convertCalls' = convertCalls
            \/ /\ uploads'[i].status = "error"
               /\ { c \in convertCalls' : c.slot = i } \subseteq convertCalls ]_vars

(***************************************************************************)
(* C28: a superseded Convert call never changes its slot.                  *)
(***************************************************************************)
\* C28: the document id of a complete slot is the one returned for the file
\* the slot holds.
C28_CompleteFromCurrentFile ==
    \A i \in Slots :
        uploads[i].status = "complete" =>
            /\ uploads[i].docId # NoDocId
            /\ uploads[i].file = NewFile(uploads[i].docId[2], uploads[i].docId[3])

(***************************************************************************)
(* C24: the retry action.                                                  *)
(***************************************************************************)
\* C24: a step that takes a slot to waiting starts from error, clears the
\* slot's file and document id, issues no Convert and no Combine call, and
\* leaves the other slots, busy and combinedTitle unchanged.
C24_RetryFrame ==
    [][ \A i \in Slots :
          (uploads[i].status # "waiting" /\ uploads'[i].status = "waiting") =>
            /\ uploads[i].status = "error"
            /\ uploads'[i].file = NoFile
            /\ uploads'[i].docId = NoDocId
            /\ convertCalls' = convertCalls
            /\ combineCalls' = combineCalls
            /\ combineCount' = combineCount
            /\ \A j \in Slots \ {i} : uploads'[j] = uploads[j]
            /\ busy' = busy
            /\ combinedTitle' = combinedTitle ]_vars

\* A slot that had a file is waiting again, next to a complete slot.
C24_Witness ==
    \E i \in Slots, j \in Slots :
        /\ i # j
        /\ attempts[i] > 0
        /\ uploads[i].status = "waiting"
        /\ uploads[i].file = NoFile
        /\ uploads[j].status = "complete"

(***************************************************************************)
(* C25: the title of a Combine call.                                       *)
(***************************************************************************)
\* C25: a Combine call is issued with the combinedTitle of that moment, and a
\* title edit changes no outstanding call, issues no call and schedules no
\* join evaluation.
C25_TitleFrozenAtDispatch ==
    [][ /\ combineCount' # combineCount =>
              \E q \in combineCalls' \ combineCalls : q.combined_title = combinedTitle
        /\ combinedTitle' # combinedTitle =>
              /\ combineCalls' = combineCalls
              /\ combineCount' = combineCount
              /\ effectPending' = effectPending ]_vars

\* The title was edited while a Combine call is outstanding.
C25_Witness ==
    \E q \in combineCalls : q.combined_title # combinedTitle

(***************************************************************************)
(* C26: titles and document ids of a Combine call are paired.              *)
(***************************************************************************)
\* C26: in every Combine call titles and doc_ids have the same length, and
\* position k holds the document id of a Convert call of slot k - 1 together
\* with the name of the file that call converted, or "Report k" when that
\* name is empty.
C26_TitlesPairedWithDocIds ==
    \A q \in combineCalls :
        /\ Len(q.titles) = Len(q.doc_ids)
        /\ \A k \in 1 .. Len(q.doc_ids) :
              /\ q.doc_ids[k][2] = k - 1
              /\ LET name == FileName(NewFile(q.doc_ids[k][2], q.doc_ids[k][3]))
                 IN  q.titles[k] = IF name = "" THEN "Report " \o ToString(k) ELSE name

\* A Combine call whose last document comes from the second file of the last
\* slot, the one with the empty name, sent under the default title.
C26_Witness ==
    \E q \in combineCalls :
        /\ q.doc_ids[N] = <<"doc", N - 1, 2>>
        /\ q.titles[N] = "Report 3"
        /\ q.titles[1] = "file0-1"

(***************************************************************************)
(* C27: the join eventually fires and its result is delivered.             *)
(***************************************************************************)
\* C27: when no api call fails, once every slot has been bound a Combine call
\* is eventually issued and onComplete is eventually called.
C27_EventuallyCombined ==
    (\A i \in Slots : attempts[i] > 0) ~> (combineCount > 0 /\ onCompleteCount > 0)

\* Every slot was bound, one of them twice, and onComplete has been called.
C27_Witness ==
    /\ \A i \in Slots : attempts[i] > 0
    /\ \E i \in Slots : attempts[i] > 1
    /\ combineCount > 0
    /\ onCompleteCount > 0

====
